---- MODULE Spec2Model ----
(***************************************************************************)
(* Model of the experiment control loop of src/experiment.py: the class    *)
(* Experiment with run(), run_episode_train(), eval(), run_episode_eval()  *)
(* and save_data().  The agent and the environments are external           *)
(* collaborators: their answers (reward, done, steps_exceeded) are drawn   *)
(* from small sets.                                                        *)
(***************************************************************************)
EXTENDS Integers, Sequences, FiniteSets, TLC

\* ------------------------------------------------------------------ bounds
MaxTotalTimesteps == 3
MaxEpisodeCap == 2
MaxEvalInterval == 2
MaxStepsToSave == 2
MaxEvalEpisodes == 1
MaxStepsPerEpisode == 2
MaxEvalEpLen == 2
MaxSaveStep == 5
MaxSaveCalls == 2
MaxPrevRuns == 2
MaxIndex == 1
MaxEvalSteps == 3
MaxDirCalls == 1

\* rewards of the training environment
Rewards == {0, 1}

\* the evaluation environment pays one unit of reward per step
EvalRewards == {1}

VARIABLES
    \* configuration (Experiment.__init__ parameters and env attributes)
    total_timesteps, max_episodes, eval_interval_timesteps, steps_to_save,
    eval_episodes, steps_per_episode, eval_episode_len, eval_steps,
    \* RunState
    timesteps_elapsed, timesteps_since_last_eval, train_episodes, last_save,
    train_ep_return, train_ep_steps, timesteps_at_eval,
    eval_ep_return, eval_ep_steps, info,
    \* locals of run_episode_train
    episode_return, episode_steps, done, update_call, state, action,
    \* locals of eval and run_episode_eval
    eval_caller, eval_i, temp_rewards_per_episode, eval_episode_steps,
    ev_return, ev_steps, eval_session_time,
    \* locals of the state-collection pass of eval
    cur_steps, eval_state_buffer, collect_state, collect_done,
    additional_eval_time,
    \* evaluation time of the run and the value eval returned last
    eval_time, eval_time_read, eval_returned,
    \* collaborators
    agent_mode, agent_info, env_info,
    \* checkpoint writer
    save_cache, files, save_log, dirs, save_arg,
    \* control position and observation history
    pc, trace, train_ep_done

cfgvars == <<total_timesteps, max_episodes, eval_interval_timesteps,
             steps_to_save, eval_episodes, steps_per_episode,
             eval_episode_len, eval_steps>>
runvars == <<timesteps_elapsed, timesteps_since_last_eval, train_episodes,
             last_save, train_ep_return, train_ep_steps, timesteps_at_eval,
             eval_ep_return, eval_ep_steps, info>>
trainvars == <<episode_return, episode_steps, done, update_call, state,
               action>>
collectvars == <<cur_steps, eval_state_buffer, collect_state, collect_done,
                 additional_eval_time>>
evalvars == <<eval_caller, eval_i, temp_rewards_per_episode,
              eval_episode_steps, ev_return, ev_steps, eval_session_time,
              collectvars>>
timevars == <<eval_time, eval_time_read, eval_returned>>
extvars == <<agent_mode, agent_info, env_info>>
savevars == <<save_cache, files, save_log, dirs, save_arg>>
vars == <<cfgvars, runvars, trainvars, evalvars, timevars, extvars, savevars,
          pc, trace, train_ep_done>>

\* ------------------------------------------------------------- dictionaries
EmptyDict == [k \in {} |-> 0]

\* {**a, **b}: the later mapping wins on a key collision
Merge(a, b) ==
    [k \in (DOMAIN a) \cup (DOMAIN b) |-> IF k \in DOMAIN b THEN b[k] ELSE a[k]]

\* the record of an earlier run already held by the results container
PrevRun(j) == ("run_index" :> j)

PrevRuns(n) == [j \in 1..n |-> PrevRun(j - 1)]

\* ------------------------------------------------------------ pure helpers
\* experiment.py:263-272
DoneMaskNoTruncation(spe, steps, d, exceeded) ==
    IF spe <= 1 THEN 0
    ELSE IF steps <= spe /\ d THEN 0 ELSE 1

DoneMask(spe, steps, d, exceeded) ==
    IF spe <= 1 THEN 0
    ELSE IF steps <= spe /\ d /\ ~exceeded THEN 0 ELSE 1

\* experiment.py:356: getattr(self.agent, "eval_steps", None) of an agent
\* without the attribute; an agent that has it holds {n}
NoEvalSteps == {}

\* experiment.py:450 and 458: the base save directory and the directory of
\* a bucket below it
BaseDir == <<"save_dir", 0>>

BucketDir(save_step) == <<"bucket", save_step>>

\* experiment.py:160-162
LoopCondNoCap == timesteps_elapsed < total_timesteps

LoopCondCapAlways ==
    /\ timesteps_elapsed < total_timesteps
    /\ train_episodes < max_episodes

LoopCondLax ==
    /\ timesteps_elapsed <= total_timesteps
    /\ (IF max_episodes > 0 THEN train_episodes < max_episodes ELSE TRUE)

LoopCond ==
    /\ timesteps_elapsed < total_timesteps
    /\ (IF max_episodes > 0 THEN train_episodes < max_episodes ELSE TRUE)

\* experiment.py:243-244
EvalDueEveryStep == timesteps_since_last_eval >= 0

EvalDueStrict == timesteps_since_last_eval > eval_interval_timesteps

EvalDue == timesteps_since_last_eval >= eval_interval_timesteps

\* experiment.py:299
BudgetReachedStrict(elapsed) == elapsed > total_timesteps

BudgetReached(elapsed) == elapsed >= total_timesteps

\* experiment.py:173
SaveDueStrict == timesteps_elapsed - last_save > steps_to_save

SaveDue == timesteps_elapsed - last_save >= steps_to_save

\* experiment.py:457   (Python // on integers is floor division)
BucketCeil(step, interval) == ((step + interval - 1) \div interval) * interval

Bucket(step, interval) == (step \div interval) * interval

\* experiment.py:176-183 and 198-205 (train_time, a wall-clock reading of
\* the training episodes, is left out)
InfoSnapshot ==
    Merge(info,
          ("eval_episode_rewards" :> eval_ep_return) @@
          ("eval_episode_steps" :> eval_ep_steps) @@
          ("timesteps_at_eval" :> timesteps_at_eval) @@
          ("train_episode_steps" :> train_ep_steps) @@
          ("train_episode_rewards" :> train_ep_return) @@
          ("eval_time" :> eval_time) @@
          ("total_train_episodes" :> train_episodes))

\* experiment.py:430-446: the merged checkpoint record
RunRecordEnvFirst(cache, ctrl_info) ==
    Merge(Merge(Merge(Merge(cache.run_data, ("learned_params" :> "params")),
                      env_info), agent_info), ctrl_info)

RunRecord(cache, ctrl_info) ==
    Merge(Merge(Merge(Merge(cache.run_data, ("learned_params" :> "params")),
                      agent_info), ctrl_info), env_info)

\* experiment.py:431: the cached container is deep-copied, so the append of
\* line 446 never reaches save_cache["data"]
CacheAliased(cache, data) == [cache EXCEPT !.data = data]

CacheAfterSave(cache, data) == cache

\* experiment.py:428-468 as a state change of the checkpoint writer
SaveData(step, ctrl_info) ==
    LET run_data == RunRecord(save_cache, ctrl_info)
        data == Append(save_cache.data, run_data)
        save_step == Bucket(step, steps_to_save)
        save_file == <<save_step, save_cache.index>>
    IN  /\ files' = [p \in (DOMAIN files) \cup {save_file} |->
                        IF p = save_file THEN data ELSE files[p]]
        /\ save_cache' = CacheAfterSave(save_cache, data)
        /\ dirs' = dirs \cup {BaseDir, BucketDir(save_step)}
        /\ save_arg' = step
        /\ save_log' = Append(save_log,
                              [step |-> step, save_step |-> save_step,
                               index |-> save_cache.index,
                               existed |-> save_file \in DOMAIN files,
                               cached |-> Len(save_cache.data),
                               written |-> Len(data),
                               record |-> run_data])

\* --------------------------------------------------------------------- Init
\* no agent.update call of the current episode to observe
NoUpdateCall ==
    [done_mask |-> 0, done |-> FALSE, steps_exceeded |-> FALSE,
     episode_steps |-> 0, mode |-> "none"]

\* experiment.py:36-131
Constructed ==
    /\ timesteps_elapsed = 0
    /\ timesteps_since_last_eval = 0
    /\ train_episodes = 0
    /\ last_save = 0
    /\ train_ep_return = <<>>
    /\ train_ep_steps = <<>>
    /\ timesteps_at_eval = <<>>
    /\ eval_ep_return = <<>>
    /\ eval_ep_steps = <<>>
    /\ info = EmptyDict
    /\ episode_return = 0
    /\ episode_steps = 0
    /\ done = FALSE
    /\ update_call = NoUpdateCall
    /\ state = <<0, 0>>
    /\ action = <<0, 0>>
    /\ eval_caller = "none"
    /\ eval_i = 0
    /\ temp_rewards_per_episode = <<>>
    /\ eval_episode_steps = <<>>
    /\ ev_return = 0
    /\ ev_steps = 0
    /\ eval_session_time = 0
    /\ cur_steps = 0
    /\ eval_state_buffer = <<>>
    /\ collect_state = <<0, 0>>
    /\ collect_done = FALSE
    /\ additional_eval_time = 0
    /\ eval_time = 0
    /\ eval_time_read = 0
    /\ eval_returned = 0
    /\ agent_mode = "train"
    /\ files = EmptyDict
    /\ save_log = <<>>
    /\ dirs = {}
    /\ save_arg = 0
    /\ pc = "run_start"
    /\ trace = <<>>
    /\ train_ep_done = <<>>

Init ==
    /\ total_timesteps \in 0..MaxTotalTimesteps
    /\ max_episodes \in -1..MaxEpisodeCap
    /\ eval_interval_timesteps \in 0..MaxEvalInterval
    /\ steps_to_save \in 1..MaxStepsToSave
    /\ eval_episodes \in 0..MaxEvalEpisodes
    /\ steps_per_episode = MaxStepsPerEpisode
    /\ eval_episode_len \in 1..MaxEvalEpLen
    /\ eval_episodes = 0 => eval_episode_len = 1
    /\ eval_steps = NoEvalSteps
    /\ agent_info = EmptyDict
    /\ env_info = EmptyDict
    /\ save_cache = [run_data |-> ("run_index" :> 1),
                     data |-> PrevRuns(1), index |-> 1]
    /\ Constructed

\* experiment.py:36-131 for every episode-length attribute of the training
\* environment, the rest of the configuration fixed
InitMask ==
    /\ total_timesteps = MaxTotalTimesteps
    /\ max_episodes = -1
    /\ eval_interval_timesteps = MaxEvalInterval
    /\ steps_to_save = MaxStepsToSave
    /\ eval_episodes = 1
    /\ steps_per_episode \in 0..MaxStepsPerEpisode
    /\ eval_episode_len = 1
    /\ eval_steps = NoEvalSteps
    /\ agent_info = EmptyDict
    /\ env_info = EmptyDict
    /\ save_cache = [run_data |-> ("run_index" :> 1),
                     data |-> PrevRuns(1), index |-> 1]
    /\ Constructed

\* ---------------------------------------------------------------- run()
\* experiment.py:151-155: run() starts with the call of eval()
RunStartNoEval ==
    /\ pc = "run_start"
    /\ pc' = "run_while"
    /\ UNCHANGED <<cfgvars, timevars,
                   runvars, trainvars, evalvars, extvars, savevars,
                   trace, train_ep_done>>

RunStart ==
    /\ pc = "run_start"
    /\ pc' = "eval_begin"
    /\ eval_caller' = "initial"
    /\ eval_time_read' = eval_time
    /\ UNCHANGED <<cfgvars, eval_time, eval_returned,
                   runvars, trainvars, eval_i,
                   temp_rewards_per_episode, eval_episode_steps, ev_return,
                   ev_steps, eval_session_time, collectvars, extvars,
                   savevars, trace, train_ep_done>>

\* experiment.py:156
RunAfterInitialEval ==
    /\ pc = "run_after_initial_eval"
    /\ timesteps_at_eval' = Append(timesteps_at_eval, timesteps_elapsed)
    /\ eval_time' = eval_time_read + eval_returned
    /\ pc' = "run_while"
    /\ UNCHANGED <<cfgvars, eval_time_read, eval_returned,
                   timesteps_elapsed, timesteps_since_last_eval,
                   train_episodes, last_save, train_ep_return, train_ep_steps,
                   eval_ep_return, eval_ep_steps, info, trainvars, evalvars,
                   extvars, savevars, trace, train_ep_done>>

\* experiment.py:160-162, condition true: call run_episode_train()
RunWhileEnter ==
    /\ pc = "run_while"
    /\ LoopCond
    /\ pc' = "train_begin"
    /\ UNCHANGED <<cfgvars, timevars,
                   runvars, trainvars, evalvars, extvars, savevars,
                   trace, train_ep_done>>

\* experiment.py:160-162 condition false, then 188-189: call eval()
RunWhileExitNoEval ==
    /\ pc = "run_while"
    /\ ~LoopCond
    /\ pc' = "run_after_final_eval"
    /\ trace' = Append(trace, "loop_exit")
    /\ UNCHANGED <<cfgvars, timevars,
                   runvars, trainvars, evalvars, extvars, savevars,
                   train_ep_done>>

RunWhileExit ==
    /\ pc = "run_while"
    /\ ~LoopCond
    /\ pc' = "eval_begin"
    /\ eval_caller' = "final"
    /\ eval_time_read' = eval_time
    /\ trace' = Append(trace, "loop_exit")
    /\ UNCHANGED <<cfgvars, eval_time, eval_returned,
                   runvars, trainvars, eval_i,
                   temp_rewards_per_episode, eval_episode_steps, ev_return,
                   ev_steps, eval_session_time, collectvars, extvars,
                   savevars, train_ep_done>>

\* experiment.py:165-171: the episode returned (its transition locals are
\* gone), its results are recorded
RunRecordEpisode ==
    /\ pc = "run_record"
    /\ train_ep_return' = Append(train_ep_return, episode_return)
    /\ train_ep_steps' = Append(train_ep_steps, episode_steps)
    /\ train_ep_done' = Append(train_ep_done, done)
    /\ update_call' = NoUpdateCall
    /\ pc' = "run_save_test"
    /\ UNCHANGED <<cfgvars, timevars,
                   timesteps_elapsed, timesteps_since_last_eval,
                   train_episodes, last_save, timesteps_at_eval,
                   eval_ep_return, eval_ep_steps, info, episode_return,
                   episode_steps, done, state, action, evalvars, extvars,
                   savevars, trace>>

\* experiment.py:173-185 without the last_save assignment of line 186
RunSaveNoMark ==
    /\ pc = "run_save_test"
    /\ SaveDue
    /\ info' = InfoSnapshot
    /\ SaveData(timesteps_elapsed, InfoSnapshot)
    /\ trace' = Append(trace, "save")
    /\ pc' = "run_while"
    /\ UNCHANGED <<cfgvars, timevars,
                   timesteps_elapsed, timesteps_since_last_eval,
                   train_episodes, last_save, train_ep_return,
                   train_ep_steps, timesteps_at_eval, eval_ep_return,
                   eval_ep_steps, trainvars, evalvars, extvars,
                   train_ep_done>>

\* experiment.py:173-186: checkpoint boundary crossed
RunSave ==
    /\ pc = "run_save_test"
    /\ SaveDue
    /\ info' = InfoSnapshot
    /\ SaveData(timesteps_elapsed, InfoSnapshot)
    /\ last_save' = timesteps_elapsed
    /\ trace' = Append(trace, "save")
    /\ pc' = "run_while"
    /\ UNCHANGED <<cfgvars, timevars,
                   timesteps_elapsed, timesteps_since_last_eval,
                   train_episodes, train_ep_return, train_ep_steps,
                   timesteps_at_eval, eval_ep_return, eval_ep_steps,
                   trainvars, evalvars, extvars, train_ep_done>>

\* experiment.py:173: no checkpoint boundary crossed
RunNoSave ==
    /\ pc = "run_save_test"
    /\ ~SaveDue
    /\ pc' = "run_while"
    /\ UNCHANGED <<cfgvars, timevars,
                   runvars, trainvars, evalvars, extvars, savevars,
                   trace, train_ep_done>>

\* experiment.py:190-205 followed by a save_data of the final state
RunAfterFinalEvalSave ==
    /\ pc = "run_after_final_eval"
    /\ timesteps_at_eval' = Append(timesteps_at_eval, timesteps_elapsed)
    /\ info' = Merge(InfoSnapshot,
                     ("timesteps_at_eval" :>
                          Append(timesteps_at_eval, timesteps_elapsed)) @@
                     ("eval_time" :> eval_time_read + eval_returned))
    /\ eval_time' = eval_time_read + eval_returned
    /\ SaveData(timesteps_elapsed,
                Merge(InfoSnapshot,
                      ("timesteps_at_eval" :>
                           Append(timesteps_at_eval, timesteps_elapsed)) @@
                      ("eval_time" :> eval_time_read + eval_returned)))
    /\ trace' = Append(trace, "save")
    /\ pc' = "done"
    /\ UNCHANGED <<cfgvars, eval_time_read, eval_returned,
                   timesteps_elapsed, timesteps_since_last_eval,
                   train_episodes, last_save, train_ep_return, train_ep_steps,
                   eval_ep_return, eval_ep_steps, trainvars, evalvars,
                   extvars, train_ep_done>>

\* experiment.py:190-205
RunAfterFinalEval ==
    /\ pc = "run_after_final_eval"
    /\ timesteps_at_eval' = Append(timesteps_at_eval, timesteps_elapsed)
    /\ info' = Merge(InfoSnapshot,
                     ("timesteps_at_eval" :>
                          Append(timesteps_at_eval, timesteps_elapsed)) @@
                     ("eval_time" :> eval_time_read + eval_returned))
    /\ eval_time' = eval_time_read + eval_returned
    /\ pc' = "done"
    /\ UNCHANGED <<cfgvars, eval_time_read, eval_returned,
                   timesteps_elapsed, timesteps_since_last_eval,
                   train_episodes, last_save, train_ep_return, train_ep_steps,
                   eval_ep_return, eval_ep_steps, trainvars, evalvars,
                   extvars, savevars, trace, train_ep_done>>

\* ------------------------------------------------- run_episode_train()
\* experiment.py:218-239
TrainBeginNoCount ==
    /\ pc = "train_begin"
    /\ episode_return' = 0
    /\ episode_steps' = 0
    /\ done' = FALSE
    /\ state' = <<train_episodes + 1, 0>>
    /\ action' = <<train_episodes + 1, 0>>
    /\ trace' = trace \o <<"agent_reset", "env_reset">>
    /\ pc' = "train_while"
    /\ UNCHANGED <<cfgvars, timevars, runvars, update_call, evalvars, extvars,
                   savevars, train_ep_done>>

TrainBegin ==
    /\ pc = "train_begin"
    /\ train_episodes' = train_episodes + 1
    /\ episode_return' = 0
    /\ episode_steps' = 0
    /\ done' = FALSE
    /\ state' = <<train_episodes + 1, 0>>
    /\ action' = <<train_episodes + 1, 0>>
    /\ trace' = trace \o <<"agent_reset", "env_reset">>
    /\ pc' = "train_while"
    /\ UNCHANGED <<cfgvars, timevars,
                   timesteps_elapsed, timesteps_since_last_eval,
                   last_save, train_ep_return, train_ep_steps,
                   timesteps_at_eval, eval_ep_return, eval_ep_steps, info,
                   update_call, evalvars, extvars, savevars, train_ep_done>>

\* experiment.py:241 with done true: leave the loop, 302-309 return
TrainReturn ==
    /\ pc = "train_while"
    /\ done
    /\ pc' = "run_record"
    /\ UNCHANGED <<cfgvars, timevars,
                   runvars, trainvars, evalvars, extvars, savevars,
                   trace, train_ep_done>>

\* experiment.py:241-245: evaluation excursion inside the episode
TrainEval ==
    /\ pc = "train_while"
    /\ ~done
    /\ EvalDue
    /\ pc' = "eval_begin"
    /\ eval_caller' = "train"
    /\ eval_time_read' = eval_time
    /\ UNCHANGED <<cfgvars, eval_time, eval_returned,
                   runvars, trainvars, eval_i,
                   temp_rewards_per_episode, eval_episode_steps, ev_return,
                   ev_steps, eval_session_time, collectvars, extvars,
                   savevars, trace, train_ep_done>>

\* experiment.py:241-244: no evaluation due, go on to the step
TrainNoEval ==
    /\ pc = "train_while"
    /\ ~done
    /\ ~EvalDue
    /\ pc' = "train_step"
    /\ UNCHANGED <<cfgvars, timevars,
                   runvars, trainvars, evalvars, extvars, savevars,
                   trace, train_ep_done>>

\* experiment.py:245 without the marker of line 246
TrainAfterEvalNoMark ==
    /\ pc = "train_after_eval"
    /\ eval_time' = eval_time_read + eval_returned
    /\ pc' = "train_step"
    /\ UNCHANGED <<cfgvars, eval_time_read, eval_returned, runvars,
                   trainvars, evalvars, extvars, savevars, trace,
                   train_ep_done>>

\* experiment.py:245-246
TrainAfterEval ==
    /\ pc = "train_after_eval"
    /\ timesteps_at_eval' = Append(timesteps_at_eval, timesteps_elapsed)
    /\ eval_time' = eval_time_read + eval_returned
    /\ pc' = "train_step"
    /\ UNCHANGED <<cfgvars, eval_time_read, eval_returned,
                   timesteps_elapsed, timesteps_since_last_eval,
                   train_episodes, last_save, train_ep_return, train_ep_steps,
                   eval_ep_return, eval_ep_steps, info, trainvars, evalvars,
                   extvars, savevars, trace, train_ep_done>>

\* experiment.py:248-300: one transition of the training environment, the
\* agent update, the counters and the budget test
TrainStep ==
    /\ pc = "train_step"
    /\ \E reward \in Rewards, d \in BOOLEAN, steps_exceeded \in BOOLEAN :
         /\ episode_steps' = episode_steps + 1
         /\ episode_return' = episode_return + reward
         /\ done' = d
         /\ update_call' = [done_mask |-> DoneMask(steps_per_episode,
                                                   episode_steps + 1, d,
                                                   steps_exceeded),
                            done |-> d,
                            steps_exceeded |-> steps_exceeded,
                            episode_steps |-> episode_steps + 1,
                            mode |-> agent_mode]
         /\ state' = <<train_episodes, episode_steps + 1>>
         /\ action' = IF d THEN action
                       ELSE <<train_episodes, episode_steps + 1>>
    /\ trace' = trace \o <<"env_step", "update">>
    /\ timesteps_since_last_eval' = timesteps_since_last_eval + 1
    /\ timesteps_elapsed' = timesteps_elapsed + 1
    /\ pc' = IF BudgetReached(timesteps_elapsed + 1)
             THEN "run_record" ELSE "train_while"
    /\ UNCHANGED <<cfgvars, timevars,
                   train_episodes, last_save, train_ep_return,
                   train_ep_steps, timesteps_at_eval, eval_ep_return,
                   eval_ep_steps, info, evalvars, extvars, savevars,
                   train_ep_done>>

\* ---------------------------------------------------------------- eval()
\* experiment.py:325-333
EvalBegin ==
    /\ pc = "eval_begin"
    /\ timesteps_since_last_eval' = 0
    /\ agent_mode' = "eval"
    /\ temp_rewards_per_episode' = <<>>
    /\ eval_episode_steps' = <<>>
    /\ eval_i' = 0
    /\ eval_session_time' = 0
    /\ trace' = Append(trace, "eval_begin")
    /\ pc' = "eval_for"
    /\ UNCHANGED <<cfgvars, timevars,
                   timesteps_elapsed, train_episodes, last_save,
                   train_ep_return, train_ep_steps, timesteps_at_eval,
                   eval_ep_return, eval_ep_steps, info, trainvars,
                   eval_caller, ev_return, ev_steps, collectvars,
                   agent_info, env_info,
                   savevars, train_ep_done>>

\* experiment.py:407-413 with the episode counters of run_episode_train
\* in the place of the locals of run_episode_eval
EvalEpisodeBeginShared ==
    /\ pc = "eval_for"
    /\ eval_i < eval_episodes
    /\ ev_return' = 0
    /\ ev_steps' = 0
    /\ episode_return' = 0
    /\ episode_steps' = 0
    /\ pc' = "eval_episode"
    /\ UNCHANGED <<cfgvars, timevars, runvars, done, update_call, state,
                   action, eval_caller, eval_i, temp_rewards_per_episode,
                   eval_episode_steps, eval_session_time, collectvars,
                   extvars, savevars, trace, train_ep_done>>

\* experiment.py:336-338 and 407-413: next evaluation episode starts
EvalEpisodeBegin ==
    /\ pc = "eval_for"
    /\ eval_i < eval_episodes
    /\ ev_return' = 0
    /\ ev_steps' = 0
    /\ pc' = "eval_episode"
    /\ UNCHANGED <<cfgvars, timevars, runvars, trainvars, eval_caller, eval_i,
                   temp_rewards_per_episode, eval_episode_steps,
                   eval_session_time, collectvars, extvars,
                   savevars, trace, train_ep_done>>

\* experiment.py:415-426 with the evaluation step counted as a timestep
EvalEpisodeStepCounted ==
    /\ pc = "eval_episode"
    /\ \E reward \in EvalRewards, d \in BOOLEAN :
         /\ d = (ev_steps + 1 >= eval_episode_len)
         /\ IF d
            THEN /\ temp_rewards_per_episode' =
                        Append(temp_rewards_per_episode, ev_return + reward)
                 /\ eval_episode_steps' =
                        Append(eval_episode_steps, ev_steps + 1)
                 /\ eval_i' = eval_i + 1
                 /\ eval_session_time' = eval_session_time + ev_steps + 1
                 /\ pc' = "eval_for"
            ELSE /\ UNCHANGED <<temp_rewards_per_episode, eval_episode_steps,
                                eval_i, eval_session_time, pc>>
         /\ ev_return' = ev_return + reward
         /\ ev_steps' = ev_steps + 1
    /\ timesteps_elapsed' = timesteps_elapsed + 1
    /\ UNCHANGED <<cfgvars, timevars, timesteps_since_last_eval,
                   train_episodes, last_save, train_ep_return, train_ep_steps,
                   timesteps_at_eval, eval_ep_return, eval_ep_steps, info,
                   trainvars, eval_caller, collectvars, extvars, savevars,
                   trace, train_ep_done>>

\* experiment.py:415-426 and 342-347: one step of the evaluation
\* environment; when it reports done the episode is recorded.  The
\* evaluation environment of a run reports done at its eval_episode_len-th
\* step.
EvalEpisodeStep ==
    /\ pc = "eval_episode"
    /\ \E reward \in EvalRewards, d \in BOOLEAN :
         /\ d = (ev_steps + 1 >= eval_episode_len)
         /\ IF d
            THEN /\ temp_rewards_per_episode' =
                        Append(temp_rewards_per_episode, ev_return + reward)
                 /\ eval_episode_steps' =
                        Append(eval_episode_steps, ev_steps + 1)
                 /\ eval_i' = eval_i + 1
                 /\ eval_session_time' = eval_session_time + ev_steps + 1
                 /\ pc' = "eval_for"
            ELSE /\ UNCHANGED <<temp_rewards_per_episode, eval_episode_steps,
                                eval_i, eval_session_time, pc>>
         /\ ev_return' = ev_return + reward
         /\ ev_steps' = ev_steps + 1
    /\ UNCHANGED <<cfgvars, timevars,
                   runvars, trainvars, eval_caller, collectvars,
                   extvars, savevars, trace, train_ep_done>>

\* the budget of an agent that advertises eval_steps
EvalStepsOf(es) == CHOOSE n \in es : TRUE

\* experiment.py:336 exhausted, 356-361: the agent advertises eval_steps, the
\* state-collection pass starts
EvalCollectBegin ==
    /\ pc = "eval_for"
    /\ eval_i >= eval_episodes
    /\ eval_steps # NoEvalSteps
    /\ eval_state_buffer' = <<>>
    /\ additional_eval_time' = 0
    /\ cur_steps' = 0
    /\ collect_state' = <<0, 0>>
    /\ pc' = "eval_collect_while"
    /\ UNCHANGED <<cfgvars, timevars, runvars, trainvars, eval_caller, eval_i,
                   temp_rewards_per_episode, eval_episode_steps, ev_return,
                   ev_steps, eval_session_time, collect_done, extvars,
                   savevars, trace, train_ep_done>>

\* experiment.py:362-366: budget not used up, the evaluation environment is
\* reset and its first state is buffered
EvalCollectReset ==
    /\ pc = "eval_collect_while"
    /\ cur_steps < EvalStepsOf(eval_steps)
    /\ collect_state' = <<collect_state[1] + 1, 0>>
    /\ collect_done' = FALSE
    /\ eval_state_buffer' =
           Append(eval_state_buffer, <<collect_state[1] + 1, 0>>)
    /\ pc' = "eval_collect_inner"
    /\ UNCHANGED <<cfgvars, timevars, runvars, trainvars, eval_caller, eval_i,
                   temp_rewards_per_episode, eval_episode_steps, ev_return,
                   ev_steps, eval_session_time, cur_steps,
                   additional_eval_time, extvars, savevars, trace,
                   train_ep_done>>

\* experiment.py:367-380: one step of the evaluation environment inside the
\* pass; the environment decides when its episode ends
EvalCollectStep ==
    /\ pc = "eval_collect_inner"
    /\ ~collect_done
    /\ \E d \in BOOLEAN :
         LET next_state == <<collect_state[1], collect_state[2] + 1>>
             buffer == Append(eval_state_buffer, next_state)
         IN  /\ collect_state' = next_state
             /\ collect_done' = d
             /\ cur_steps' = cur_steps + 1
             /\ IF cur_steps + 1 <= EvalStepsOf(eval_steps)
                THEN /\ eval_state_buffer' = buffer
                     /\ agent_info' =
                           IF Len(buffer) = EvalStepsOf(eval_steps)
                           THEN [agent_info EXCEPT !["eval_state"] =
                                                      Append(@, buffer)]
                           ELSE agent_info
                     /\ pc' = IF d THEN "eval_collect_while"
                                   ELSE "eval_collect_inner"
                ELSE /\ UNCHANGED <<eval_state_buffer, agent_info>>
                     /\ pc' = "eval_collect_while"
    /\ UNCHANGED <<cfgvars, timevars, runvars, trainvars, eval_caller, eval_i,
                   temp_rewards_per_episode, eval_episode_steps, ev_return,
                   ev_steps, eval_session_time, additional_eval_time,
                   agent_mode, env_info, savevars, trace, train_ep_done>>

\* experiment.py:362 budget used up, 381-384: the duration of the pass (one
\* unit per step of the evaluation environment) is added to eval_time
EvalCollectEnd ==
    /\ pc = "eval_collect_while"
    /\ cur_steps >= EvalStepsOf(eval_steps)
    /\ additional_eval_time' = cur_steps
    /\ eval_time' = eval_time + cur_steps
    /\ pc' = "eval_collect_end"
    /\ UNCHANGED <<cfgvars, eval_time_read, eval_returned, runvars, trainvars,
                   eval_caller, eval_i, temp_rewards_per_episode,
                   eval_episode_steps, ev_return, ev_steps,
                   eval_session_time, cur_steps, eval_state_buffer,
                   collect_state, collect_done, extvars, savevars, trace,
                   train_ep_done>>

\* experiment.py:386-395 without the agent.train() of line 393
EvalFinishNoTrain ==
    /\ pc = IF eval_steps = NoEvalSteps THEN "eval_for" ELSE "eval_collect_end"
    /\ eval_i >= eval_episodes
    /\ eval_ep_return' = Append(eval_ep_return, temp_rewards_per_episode)
    /\ eval_ep_steps' = Append(eval_ep_steps, eval_episode_steps)
    /\ eval_time' = eval_time + eval_session_time
    /\ eval_returned' = eval_session_time
    /\ trace' = Append(trace, "eval_end")
    /\ pc' = CASE eval_caller = "initial" -> "run_after_initial_eval"
               [] eval_caller = "train" -> "train_after_eval"
               [] OTHER -> "run_after_final_eval"
    /\ UNCHANGED <<cfgvars, eval_time_read, timesteps_elapsed,
                   timesteps_since_last_eval, train_episodes, last_save,
                   train_ep_return, train_ep_steps, timesteps_at_eval, info,
                   trainvars, evalvars, extvars, savevars, train_ep_done>>

\* experiment.py:336 exhausted and 356-357 (the agent advertises no
\* eval_steps) or the pass over, then 386-395: the session is recorded,
\* training mode restored and the episode time returned
EvalFinish ==
    /\ pc = IF eval_steps = NoEvalSteps THEN "eval_for" ELSE "eval_collect_end"
    /\ eval_i >= eval_episodes
    /\ eval_ep_return' = Append(eval_ep_return, temp_rewards_per_episode)
    /\ eval_ep_steps' = Append(eval_ep_steps, eval_episode_steps)
    /\ eval_time' = eval_time + eval_session_time
    /\ agent_mode' = "train"
    /\ eval_returned' = eval_session_time
    /\ trace' = Append(trace, "eval_end")
    /\ pc' = CASE eval_caller = "initial" -> "run_after_initial_eval"
               [] eval_caller = "train" -> "train_after_eval"
               [] OTHER -> "run_after_final_eval"
    /\ UNCHANGED <<cfgvars, eval_time_read, timesteps_elapsed,
                   timesteps_since_last_eval, train_episodes, last_save,
                   train_ep_return, train_ep_steps, timesteps_at_eval, info,
                   trainvars, evalvars, agent_info, env_info, savevars,
                   train_ep_done>>

\* ------------------------------------------------ save_data() on its own
\* auxiliary info of the agent (baseAgent.py:38) and of the environment, with
\* keys that the controller's info and the run metadata hold too
AgentInfos ==
    {EmptyDict,
     ("total_train_episodes" :> 10),
     ("total_train_episodes" :> 10) @@ ("run_index" :> 12)}

EnvInfos == {EmptyDict, ("total_train_episodes" :> 20)}

\* experiment.py:36-131 with a save_cache attached: the results container
\* holds the records of the runs saved before this one
InitSave ==
    /\ total_timesteps = MaxTotalTimesteps
    /\ max_episodes = -1
    /\ eval_interval_timesteps = 1
    /\ steps_to_save \in 1..MaxStepsToSave
    /\ eval_episodes = 0
    /\ steps_per_episode = 1
    /\ eval_episode_len = 1
    /\ eval_steps = NoEvalSteps
    /\ agent_info \in AgentInfos
    /\ env_info \in EnvInfos
    /\ \E n \in 0..MaxPrevRuns, i \in 0..MaxIndex :
         save_cache = [run_data |-> ("run_index" :> i),
                       data |-> PrevRuns(n), index |-> i]
    /\ Constructed

\* experiment.py:183-185 and 428-468: the controller refreshes its info and
\* calls save_data(step); step and the episode count are inputs here
SaveCall ==
    /\ pc = "run_start"
    /\ Len(save_log) < MaxSaveCalls
    /\ \E step \in 0..MaxSaveStep, n \in 0..1 :
         /\ info' = Merge(info, ("total_train_episodes" :> n))
         /\ SaveData(step, Merge(info, ("total_train_episodes" :> n)))
    /\ trace' = Append(trace, "save")
    /\ UNCHANGED <<cfgvars, timevars,
                   timesteps_elapsed, timesteps_since_last_eval,
                   train_episodes, last_save, train_ep_return, train_ep_steps,
                   timesteps_at_eval, eval_ep_return, eval_ep_steps,
                   trainvars, evalvars, extvars, pc, train_ep_done>>

\* ------------------------------------------------------------ specification
Next ==
    \/ RunStart
    \/ RunAfterInitialEval
    \/ RunWhileEnter
    \/ RunWhileExit
    \/ RunRecordEpisode
    \/ RunSave
    \/ RunNoSave
    \/ RunAfterFinalEval
    \/ TrainBegin
    \/ TrainReturn
    \/ TrainEval
    \/ TrainNoEval
    \/ TrainAfterEval
    \/ TrainStep
    \/ EvalBegin
    \/ EvalEpisodeBegin
    \/ EvalEpisodeStep
    \/ EvalFinish

Spec == Init /\ [][Next]_vars

\* experiment.py:36-131 for every budget, episode cap and evaluation
\* interval, the checkpoint interval and the evaluation environment fixed
InitLive ==
    /\ total_timesteps \in 0..MaxTotalTimesteps
    /\ max_episodes \in -1..MaxEpisodeCap
    /\ eval_interval_timesteps \in 0..MaxEvalInterval
    /\ steps_to_save = MaxStepsToSave
    /\ eval_episodes = MaxEvalEpisodes
    /\ steps_per_episode = MaxStepsPerEpisode
    /\ eval_episode_len = MaxEvalEpLen
    /\ eval_steps = NoEvalSteps
    /\ agent_info = EmptyDict
    /\ env_info = EmptyDict
    /\ save_cache = [run_data |-> ("run_index" :> 1),
                     data |-> PrevRuns(1), index |-> 1]
    /\ Constructed

\* run() is one sequential thread of control: whenever a statement can be
\* executed it is executed.  Evaluation episodes end (eval_episode_len is
\* finite); the training environment is free never to report done.
SpecLive == InitLive /\ [][Next]_vars /\ WF_vars(Next)

SpecMask == InitMask /\ [][Next]_vars

NextSave == SaveCall

SpecSave == InitSave /\ [][NextSave]_vars

\* ------------------------------ save_data() statement by statement, with
\* another process that creates the same directories
\* experiment.py:36-131 with a save_cache attached
InitDir ==
    /\ total_timesteps = MaxTotalTimesteps
    /\ max_episodes = -1
    /\ eval_interval_timesteps = 1
    /\ steps_to_save \in 1..MaxStepsToSave
    /\ eval_episodes = 0
    /\ steps_per_episode = 1
    /\ eval_episode_len = 1
    /\ eval_steps = NoEvalSteps
    /\ agent_info = EmptyDict
    /\ env_info = EmptyDict
    /\ save_cache = [run_data |-> ("run_index" :> 1),
                     data |-> PrevRuns(1), index |-> 1]
    /\ Constructed

\* experiment.py:185 and 428: save_data(step) is entered
DirSaveBegin ==
    /\ pc = "run_start"
    /\ Len(save_log) < MaxDirCalls
    /\ \E step \in 0..MaxSaveStep : save_arg' = step
    /\ pc' = "save_check_base"
    /\ UNCHANGED <<cfgvars, timevars, runvars, trainvars, evalvars, extvars,
                   save_cache, files, save_log, dirs, trace, train_ep_done>>

\* experiment.py:450: os.path.exists(save_dir)
DirCheckBase ==
    /\ pc = "save_check_base"
    /\ pc' = IF BaseDir \in dirs THEN "save_check_bucket"
             ELSE "save_make_base"
    /\ UNCHANGED <<cfgvars, timevars, runvars, trainvars, evalvars, extvars,
                   savevars, trace, train_ep_done>>

\* experiment.py:451-455 without the except clause: the FileExistsError
\* leaves save_data
DirMakeBaseNoCatch ==
    /\ pc = "save_make_base"
    /\ dirs' = dirs \cup {BaseDir}
    /\ trace' = IF BaseDir \in dirs THEN Append(trace, "base_exists")
                ELSE trace
    /\ pc' = IF BaseDir \in dirs THEN "save_failed" ELSE "save_check_bucket"
    /\ UNCHANGED <<cfgvars, timevars, runvars, trainvars, evalvars, extvars,
                   save_cache, files, save_log, save_arg, train_ep_done>>

\* experiment.py:451-455: os.makedirs(save_dir); it raises FileExistsError
\* when the directory has appeared since the check, which is caught
DirMakeBase ==
    /\ pc = "save_make_base"
    /\ dirs' = dirs \cup {BaseDir}
    /\ trace' = IF BaseDir \in dirs THEN Append(trace, "base_exists")
                ELSE trace
    /\ pc' = "save_check_bucket"
    /\ UNCHANGED <<cfgvars, timevars, runvars, trainvars, evalvars, extvars,
                   save_cache, files, save_log, save_arg, train_ep_done>>

\* experiment.py:457-459: the bucket directory of the step is looked up
DirCheckBucket ==
    /\ pc = "save_check_bucket"
    /\ pc' = IF BucketDir(Bucket(save_arg, steps_to_save)) \in dirs
             THEN "save_write" ELSE "save_make_bucket"
    /\ UNCHANGED <<cfgvars, timevars, runvars, trainvars, evalvars, extvars,
                   savevars, trace, train_ep_done>>

\* experiment.py:460: os.makedirs(save_dir, exist_ok=True) creates the
\* directory and its parents and accepts a directory that exists
DirMakeBucket ==
    /\ pc = "save_make_bucket"
    /\ dirs' = dirs \cup {BaseDir, BucketDir(Bucket(save_arg, steps_to_save))}
    /\ trace' = IF BucketDir(Bucket(save_arg, steps_to_save)) \in dirs
                THEN Append(trace, "bucket_exists") ELSE trace
    /\ pc' = "save_write"
    /\ UNCHANGED <<cfgvars, timevars, runvars, trainvars, evalvars, extvars,
                   save_cache, files, save_log, save_arg, train_ep_done>>

\* experiment.py:461-468: the file is opened in its directory and written
DirWrite ==
    /\ pc = "save_write"
    /\ BucketDir(Bucket(save_arg, steps_to_save)) \in dirs
    /\ SaveData(save_arg, info)
    /\ trace' = Append(trace, "save")
    /\ pc' = "run_start"
    /\ UNCHANGED <<cfgvars, timevars, runvars, trainvars, evalvars, extvars,
                   train_ep_done>>

\* another process of the same sweep creates the base directory or the
\* bucket directory (with its parent) at any moment
OtherProcessMkdir ==
    /\ \E d \in {BaseDir, BucketDir(Bucket(save_arg, steps_to_save))} :
         /\ d \notin dirs
         /\ dirs' = dirs \cup {BaseDir, d}
    /\ UNCHANGED <<cfgvars, timevars, runvars, trainvars, evalvars, extvars,
                   save_cache, files, save_log, save_arg, pc, trace,
                   train_ep_done>>

NextDir ==
    \/ DirSaveBegin
    \/ DirCheckBase
    \/ DirMakeBase
    \/ DirCheckBucket
    \/ DirMakeBucket
    \/ DirWrite
    \/ OtherProcessMkdir

SpecDir == InitDir /\ [][NextDir]_vars

\* experiment.py:36-131 with an agent that may advertise eval_steps and then
\* keeps the list info["eval_state"]
InitEval ==
    /\ total_timesteps = MaxTotalTimesteps
    /\ max_episodes = -1
    /\ eval_interval_timesteps = MaxEvalInterval
    /\ steps_to_save = MaxStepsToSave
    /\ eval_episodes \in 0..MaxEvalEpisodes
    /\ steps_per_episode = MaxStepsPerEpisode
    /\ eval_episode_len \in 1..MaxEvalEpLen
    /\ eval_episodes = 0 => eval_episode_len = 1
    /\ eval_steps \in {NoEvalSteps} \cup {{n} : n \in 0..MaxEvalSteps}
    /\ agent_info = IF eval_steps = NoEvalSteps THEN EmptyDict
                    ELSE ("eval_state" :> <<>>)
    /\ env_info = EmptyDict
    /\ save_cache = [run_data |-> ("run_index" :> 1),
                     data |-> PrevRuns(1), index |-> 1]
    /\ Constructed

\* experiment.py:155-156 and 313-395: the evaluation that opens run()
NextEval ==
    \/ RunStart
    \/ EvalBegin
    \/ EvalEpisodeBegin
    \/ EvalEpisodeStep
    \/ EvalCollectBegin
    \/ EvalCollectReset
    \/ EvalCollectStep
    \/ EvalCollectEnd
    \/ EvalFinish
    \/ RunAfterInitialEval

SpecEval == InitEval /\ [][NextEval]_vars

\* ------------------------------------------------------------------ claims
\* positions of an event in the observation history
EventAt(e) == {i \in DOMAIN trace : trace[i] = e}

TrainEnvEvents == {"env_reset", "env_step"}

TrainEnvCalls(t) == Cardinality({i \in DOMAIN t : t[i] \in TrainEnvEvents})

MaxOf(S) == CHOOSE x \in S : \A y \in S : y <= x

\* C1: the done-mask passed to agent.update is 0 when steps_per_episode <= 1;
\* otherwise it is 0 exactly when done holds, episode_steps is at most
\* steps_per_episode and steps_exceeded is false, and 1 in every other case.
C1_DoneMask ==
    update_call.mode # "none" =>
        /\ update_call.done_mask \in {0, 1}
        /\ steps_per_episode <= 1 => update_call.done_mask = 0
        /\ steps_per_episode > 1 =>
              (update_call.done_mask = 0 <=>
                  (/\ update_call.done
                   /\ update_call.episode_steps <= steps_per_episode
                   /\ ~update_call.steps_exceeded))

C1_Witness ==
    /\ steps_per_episode > 1
    /\ update_call.mode # "none"
    /\ update_call.done
    /\ update_call.steps_exceeded
    /\ update_call.episode_steps <= steps_per_episode
    /\ update_call.done_mask = 1

\* C2: for total_timesteps > 0 an evaluation has completed before the first
\* reset or step of the training environment and before the first update,
\* and when run() is over at least two evaluations were invoked, one of them
\* after the training loop was left.
C2_Bookend ==
    total_timesteps > 0 =>
        /\ \A i \in DOMAIN trace :
              trace[i] \in {"env_reset", "env_step", "update"} =>
                  \E j \in 1..(i - 1) : trace[j] = "eval_end"
        /\ pc = "done" =>
              /\ Cardinality(EventAt("eval_begin")) >= 2
              /\ Cardinality(EventAt("eval_end")) >= 2
              /\ \E i \in EventAt("loop_exit") :
                    \E j \in EventAt("eval_end") : i < j

C2_Witness ==
    /\ pc = "done"
    /\ total_timesteps > 0
    /\ max_episodes = 1
    /\ Cardinality(EventAt("eval_end")) = 2
    /\ Cardinality(EventAt("env_step")) >= 1

\* C3: when a run() with total_timesteps > 0 is over, exactly one evaluation
\* was invoked after the last step of the training environment, whichever
\* way the loop was left, and no step or update follows that evaluation.
C3_FinalEvalOnce ==
    (total_timesteps > 0 /\ pc = "done") =>
        /\ EventAt("env_step") # {}
        /\ LET last == MaxOf(EventAt("env_step"))
               after == {i \in EventAt("eval_begin") : i > last}
           IN  /\ Cardinality(after) = 1
               /\ Cardinality({i \in EventAt("eval_end") : i > last}) = 1
               /\ \A e \in after : \A i \in DOMAIN trace :
                     i > e => trace[i] \notin
                                 {"env_reset", "env_step", "update", "save"}

\* the loop was left mid-episode on the budget, with evaluations inside the
\* episode before
C3_Witness ==
    /\ pc = "done"
    /\ total_timesteps > 0
    /\ Len(train_ep_done) > 0
    /\ ~train_ep_done[Len(train_ep_done)]
    /\ Cardinality(EventAt("eval_begin")) >= 3

\* C4: timesteps_elapsed never decreases and never exceeds total_timesteps.
C4_ElapsedBounded ==
    /\ [](timesteps_elapsed <= total_timesteps)
    /\ [][timesteps_elapsed' >= timesteps_elapsed]_vars

C4_Witness ==
    /\ total_timesteps > 1
    /\ timesteps_elapsed = total_timesteps
    /\ pc = "run_record"
    /\ ~done

\* the part of run() between the increment of train_episodes in
\* run_episode_train and the append of the episode's return in run()
InsideEpisode ==
    \/ pc \in {"train_while", "train_step", "train_after_eval", "run_record"}
    \/ pc \in {"eval_begin", "eval_for", "eval_episode"} /\ eval_caller = "train"

\* C5 as stated: the training-return sequence is as long as the episode count
\* in every reachable state, also inside a training episode.
C5_Original == Len(train_ep_return) = train_episodes

\* C5 amended: outside a training episode (loop test, checkpoint, bookend
\* evaluations) the training-return sequence is as long as the episode count;
\* from the increment at the start of run_episode_train until run() appends
\* the episode's return the episode count is one more than that length.
C5_LengthVsEpisodes ==
    /\ Len(train_ep_steps) = Len(train_ep_return)
    /\ IF InsideEpisode
       THEN train_episodes = Len(train_ep_return) + 1
       ELSE train_episodes = Len(train_ep_return)

C5_Witness ==
    /\ pc = "eval_episode"
    /\ eval_caller = "train"
    /\ train_episodes = 2
    /\ Len(train_ep_return) = 1

\* C6: with max_episodes = N > 0, run() ends with train_episodes <= N; when
\* it ends without the budget reached it ran exactly N episodes and each of
\* them ran until the environment reported done.
C6_EpisodeCap ==
    (max_episodes > 0 /\ pc = "done") =>
        /\ train_episodes <= max_episodes
        /\ Cardinality(EventAt("env_reset")) <= max_episodes
        /\ timesteps_elapsed < total_timesteps =>
              /\ train_episodes = max_episodes
              /\ Cardinality(EventAt("env_reset")) = max_episodes
              /\ Len(train_ep_done) = max_episodes
              /\ \A i \in DOMAIN train_ep_done : train_ep_done[i]

C6_Witness ==
    /\ pc = "done"
    /\ max_episodes = 2
    /\ timesteps_elapsed < total_timesteps
    /\ train_episodes = 2

\* C7: with max_episodes <= 0 the loop is left only with timesteps_elapsed >=
\* total_timesteps, however many episodes ran, and for total_timesteps > 0
\* run() ends with timesteps_elapsed = total_timesteps.
C7_CapDisabled ==
    max_episodes <= 0 =>
        /\ EventAt("loop_exit") # {} => timesteps_elapsed >= total_timesteps
        /\ (pc = "done" /\ total_timesteps > 0) =>
              timesteps_elapsed = total_timesteps

C7_Witness ==
    /\ pc = "done"
    /\ max_episodes = 0
    /\ train_episodes >= 3
    /\ timesteps_elapsed = total_timesteps

\* C8: once timesteps_elapsed has reached total_timesteps in a training
\* episode whose environment has not reported done, the episode returns at
\* once, the return and step count accumulated so far are what run()
\* records, and the training environment is neither stepped nor reset again.
C8_MidEpisodeBudget ==
    /\ []((timesteps_elapsed >= total_timesteps /\ ~done
             /\ train_episodes > 0) =>
           \/ pc = "run_record"
           \/ /\ ~InsideEpisode
              /\ pc # "train_begin"
              /\ Len(train_ep_return) = train_episodes
              /\ train_ep_return[Len(train_ep_return)] = episode_return
              /\ train_ep_steps[Len(train_ep_steps)] = episode_steps
              /\ ~train_ep_done[Len(train_ep_done)])
    /\ [][(timesteps_elapsed >= total_timesteps /\ ~done) =>
             TrainEnvCalls(trace') = TrainEnvCalls(trace)]_vars

C8_Witness ==
    /\ pc = "done"
    /\ Len(train_ep_return) = 2
    /\ ~train_ep_done[2]
    /\ train_ep_steps[2] = 2
    /\ train_ep_return[2] = 1

\* C9: the bucket of every save_data call is floor(step / interval) *
\* interval and satisfies bucket <= step < bucket + interval.
C9_Bucket ==
    \A i \in DOMAIN save_log :
        LET s == save_log[i].step
            b == save_log[i].save_step
        IN  /\ b <= s
            /\ s < b + steps_to_save
            /\ \E q \in 0..s :
                  /\ q * steps_to_save <= s
                  /\ s < (q + 1) * steps_to_save
                  /\ b = q * steps_to_save

C9_Witness ==
    \E i \in DOMAIN save_log :
        /\ save_log[i].step = 5
        /\ save_log[i].save_step = 4
        /\ steps_to_save = 2

\* the last save_data call that wrote the file p
LastWriter(p) ==
    MaxOf({i \in DOMAIN save_log :
              <<save_log[i].save_step, save_log[i].index>> = p})

\* C10: two save_data calls of one run index whose steps fall into the same
\* bucket write the same file; the second replaces what the first wrote, the
\* file holds the records of the earlier runs unchanged plus one record of
\* this run, as many after the second call as after the first.
C10_Idempotent ==
    /\ \A i, j \in DOMAIN save_log :
          (/\ i < j
           /\ save_log[i].index = save_log[j].index
           /\ save_log[i].save_step = save_log[j].save_step) =>
              /\ save_log[j].existed
              /\ save_log[j].written = save_log[i].written
              /\ save_log[j].written = save_log[1].cached + 1
    /\ \A p \in DOMAIN files :
          files[p] = Append(PrevRuns(save_log[1].cached),
                            save_log[LastWriter(p)].record)

C10_Witness ==
    /\ Len(save_log) >= 2
    /\ save_log[1].save_step = save_log[2].save_step
    /\ save_log[1].step # save_log[2].step
    /\ save_log[1].record # save_log[2].record
    /\ save_log[1].cached = 2
    /\ Cardinality(DOMAIN files) = 1

\* C11: the checkpoint record holds every key of the run metadata (with the
\* learned parameters), the agent info, the controller info and the
\* environment info; on a key collision the environment wins over the
\* controller, the controller over the agent, the agent over the metadata.
C11_MergePrecedence ==
    save_log # <<>> =>
        LET r == save_log[Len(save_log)].record
            base == save_cache.run_data
        IN  /\ DOMAIN r = (DOMAIN base) \cup {"learned_params"}
                             \cup (DOMAIN agent_info) \cup (DOMAIN info)
                             \cup (DOMAIN env_info)
            /\ \A k \in DOMAIN r :
                  r[k] = IF k \in DOMAIN env_info THEN env_info[k]
                         ELSE IF k \in DOMAIN info THEN info[k]
                         ELSE IF k \in DOMAIN agent_info THEN agent_info[k]
                         ELSE IF k = "learned_params" THEN "params"
                         ELSE base[k]

C11_Witness ==
    /\ save_log # <<>>
    /\ "total_train_episodes" \in DOMAIN agent_info
    /\ "total_train_episodes" \in DOMAIN info
    /\ "total_train_episodes" \in DOMAIN env_info
    /\ "run_index" \in DOMAIN agent_info
    /\ save_log[Len(save_log)].record["total_train_episodes"] = 20
    /\ save_log[Len(save_log)].record["run_index"] = 12

\* control positions inside eval() after the switch to evaluation mode
EvalModePcs ==
    {"eval_for", "eval_episode", "eval_collect_while", "eval_collect_inner",
     "eval_collect_end"}

\* C12: the agent is in evaluation mode from the start of eval()'s first
\* evaluation episode until eval() returns (so every action sampled inside
\* eval() is sampled in evaluation mode) and in training mode everywhere
\* else; every agent.update call is made in training mode, never in
\* evaluation mode.
C12_ModeBracket ==
    /\ pc \in EvalModePcs => agent_mode = "eval"
    /\ pc \notin EvalModePcs => agent_mode = "train"
    /\ update_call.mode \in {"none", "train"}

C12_Witness ==
    /\ update_call.mode = "train"
    /\ Cardinality(EventAt("eval_end")) >= 2
    /\ trace[Len(trace)] = "update"
    /\ trace[Len(trace) - 2] = "eval_end"

RECURSIVE SumSeq(_)
SumSeq(q) == IF q = <<>> THEN 0 ELSE q[1] + SumSeq(Tail(q))

\* C13: timesteps_elapsed is the number of training-environment steps taken
\* so far: it grows by exactly 1 with each of them and nothing else changes
\* it (evaluation steps never count); between training episodes it equals
\* the sum of the recorded train_ep_steps, and inside an episode that sum
\* plus the steps of the episode in progress.
C13_NoDoubleCount ==
    /\ [](/\ timesteps_elapsed = Cardinality(EventAt("env_step"))
          /\ ~InsideEpisode => timesteps_elapsed = SumSeq(train_ep_steps)
          /\ InsideEpisode =>
                timesteps_elapsed = SumSeq(train_ep_steps) + episode_steps)
    /\ [][timesteps_elapsed' # timesteps_elapsed =>
             /\ pc = "train_step"
             /\ timesteps_elapsed' = timesteps_elapsed + 1]_vars

C13_Witness ==
    /\ pc = "run_after_final_eval"
    /\ Len(train_ep_steps) = 2
    /\ timesteps_elapsed = 3
    /\ Cardinality(EventAt("eval_begin")) >= 3
    /\ eval_episodes = 1

\* C15: after each training episode save_data(timesteps_elapsed) is called
\* exactly when timesteps_elapsed - last_save >= steps_to_save, and last_save
\* then becomes timesteps_elapsed; save_data is called nowhere else (each
\* call follows the last update of an episode and precedes the next
\* episode's first agent or environment call), so at every loop test
\* 0 <= timesteps_elapsed - last_save < steps_to_save.
C15_CheckpointTrigger ==
    /\ [](/\ pc = "run_while" =>
                /\ 0 <= timesteps_elapsed - last_save
                /\ timesteps_elapsed - last_save < steps_to_save
          /\ \A i \in EventAt("save") :
                /\ i > 1
                /\ trace[i - 1] = "update"
                /\ i < Len(trace) =>
                      trace[i + 1] \in {"agent_reset", "loop_exit"})
    /\ [][/\ pc = "run_save_test" =>
                /\ (save_log' # save_log) <=> SaveDue
                /\ SaveDue =>
                      /\ save_log' = Append(save_log,
                                            save_log'[Len(save_log')])
                      /\ save_log'[Len(save_log')].step = timesteps_elapsed
                      /\ last_save' = timesteps_elapsed
          /\ (save_log' # save_log \/ last_save' # last_save) =>
                /\ pc = "run_save_test"
                /\ pc' = "run_while"]_vars

C15_Witness ==
    /\ pc = "run_while"
    /\ steps_to_save = 2
    /\ Len(train_ep_steps) = 2
    /\ Len(save_log) = 1
    /\ save_log[1].step = 2
    /\ last_save = 2
    /\ timesteps_elapsed = 3

MinOf(S) == CHOOSE x \in S : \A y \in S : x <= y

\* training-environment steps taken after position i of the history and
\* before the next start of an evaluation (or up to now if there is none)
StepsUntilNextEval(i) ==
    LET later == {j \in EventAt("eval_begin") : j > i}
        nxt == IF later = {} THEN Len(trace) + 1 ELSE MinOf(later)
    IN  Cardinality({k \in EventAt("env_step") : i < k /\ k < nxt})

\* C16: for eval_interval_timesteps >= 1, an evaluation is started right
\* before a training step exactly when timesteps_since_last_eval has reached
\* eval_interval_timesteps, and eval() resets the counter to 0; the counter
\* never exceeds eval_interval_timesteps, and at most eval_interval_timesteps
\* training steps lie between two consecutive evaluations, also when an
\* episode boundary lies between them.
C16_EvalInterval ==
    /\ [](eval_interval_timesteps >= 1 =>
            /\ timesteps_since_last_eval <= eval_interval_timesteps
            /\ pc = "train_step" =>
                  timesteps_since_last_eval < eval_interval_timesteps
            /\ \A i \in EventAt("eval_begin") :
                  StepsUntilNextEval(i) <= eval_interval_timesteps
            /\ EventAt("eval_begin") # {} =>
                  timesteps_since_last_eval =
                      StepsUntilNextEval(MaxOf(EventAt("eval_begin"))))
    /\ [][eval_interval_timesteps >= 1 =>
            /\ (pc = "train_while" /\ ~done) =>
                  ((pc' = "eval_begin") <=>
                      timesteps_since_last_eval >= eval_interval_timesteps)
            /\ pc = "eval_begin" => timesteps_since_last_eval' = 0]_vars

C16_Witness ==
    /\ pc = "train_after_eval"
    /\ eval_interval_timesteps = 2
    /\ train_episodes = 2
    /\ train_ep_steps = <<1>>
    /\ episode_steps = 1
    /\ timesteps_since_last_eval = 0
    /\ Cardinality(EventAt("eval_begin")) = 2

\* C18: every record that run() writes through save_data holds the whole
\* history: its training-return and training-step sequences are as long as
\* its total_train_episodes, its training step counts add up to the step
\* passed to save_data, and its evaluation markers are as many as its
\* evaluation-return and evaluation-step sessions, one per evaluation
\* performed so far.
C18_CheckpointComplete ==
    /\ \A n \in DOMAIN save_log :
          LET r == save_log[n].record
          IN  /\ Len(r["train_episode_rewards"]) = r["total_train_episodes"]
              /\ Len(r["train_episode_steps"]) = r["total_train_episodes"]
              /\ SumSeq(r["train_episode_steps"]) = save_log[n].step
              /\ Len(r["timesteps_at_eval"]) = Len(r["eval_episode_rewards"])
              /\ Len(r["timesteps_at_eval"]) = Len(r["eval_episode_steps"])
    /\ (trace # <<>> /\ trace[Len(trace)] = "save") =>
          Len(save_log[Len(save_log)].record["timesteps_at_eval"]) =
              Cardinality(EventAt("eval_end"))

C18_Witness ==
    /\ trace # <<>>
    /\ trace[Len(trace)] = "save"
    /\ save_log[Len(save_log)].step = 3
    /\ save_log[Len(save_log)].record["total_train_episodes"] = 2
    /\ Len(save_log[Len(save_log)].record["timesteps_at_eval"]) = 3

\* control is inside an evaluation that run_episode_train started, or at
\* the marker append that follows it
InExcursion ==
    /\ eval_caller = "train"
    /\ pc \in {"eval_begin", "train_after_eval"} \cup EvalModePcs

\* C17: an evaluation started inside a training episode changes none of
\* timesteps_elapsed, train_episodes, last_save, the recorded training
\* returns and step counts, the step count and return of the episode in
\* progress, its current state and its pending action, and calls neither
\* reset nor step of the training environment; when it is over the episode
\* goes on with the step it was about to take, the pending action being the
\* one sampled for the current state.
C17_MidEpisodeFrame ==
    /\ [][((pc = "train_while" /\ pc' = "eval_begin") \/ InExcursion) =>
             /\ UNCHANGED <<timesteps_elapsed, train_episodes, last_save,
                            train_ep_return, train_ep_steps, episode_steps,
                            episode_return, state, action, done>>
             /\ TrainEnvCalls(trace') = TrainEnvCalls(trace)]_vars
    /\ [][pc = "train_after_eval" => pc' = "train_step"]_vars
    /\ [][pc = "train_step" =>
             /\ trace' = trace \o <<"env_step", "update">>
             /\ episode_steps' = episode_steps + 1]_vars
    /\ [](pc = "train_step" =>
             /\ state = <<train_episodes, episode_steps>>
             /\ action = state)

C17_Witness ==
    /\ pc = "train_step"
    /\ trace[Len(trace)] = "eval_end"
    /\ eval_episodes = 1
    /\ episode_steps = 1
    /\ episode_return = 1
    /\ state = <<1, 1>>
    /\ timesteps_elapsed = 1

\* control positions inside save_data
SavePcs ==
    {"save_check_base", "save_make_base", "save_check_bucket",
     "save_make_bucket", "save_write"}

\* C14: save_data never fails over its directories: when the base directory
\* or the bucket directory exists at the creation attempt (created by this
\* or another process since the check, or before) the call goes on, and it
\* ends by writing the checkpoint file of the step's bucket.
C14_DirectoryRace ==
    /\ [](pc \in SavePcs \cup {"run_start"})
    /\ [][(pc = "save_make_base" /\ pc' # pc) =>
             /\ pc' = "save_check_bucket"
             /\ BaseDir \in dirs']_vars
    /\ [][(pc = "save_make_bucket" /\ pc' # pc) =>
             /\ pc' = "save_write"
             /\ BucketDir(Bucket(save_arg, steps_to_save)) \in dirs']_vars
    /\ [](pc = "save_write" =>
             BucketDir(Bucket(save_arg, steps_to_save)) \in dirs)
    /\ [][(pc = "save_write" /\ pc' # pc) =>
             /\ pc' = "run_start"
             /\ <<Bucket(save_arg, steps_to_save), save_cache.index>>
                    \in DOMAIN files'
             /\ Len(save_log') = Len(save_log) + 1]_vars

C14_Witness ==
    /\ pc = "run_start"
    /\ trace = <<"base_exists", "bucket_exists", "save">>
    /\ save_arg = 5
    /\ steps_to_save = 2
    /\ <<4, 1>> \in DOMAIN files

\* C19: when the agent advertises eval_steps = n >= 1, an eval() invocation
\* has appended exactly one buffer to agent.info["eval_state"] when it
\* returns, that buffer holds exactly n states, whatever the episode lengths
\* of the evaluation environment were, and the recorded session is the one
\* the eval_episodes episodes produced.
C19_Original ==
    (/\ pc = "run_after_initial_eval"
     /\ eval_steps # NoEvalSteps
     /\ EvalStepsOf(eval_steps) >= 1) =>
        /\ Len(agent_info["eval_state"]) = 1
        /\ Len(agent_info["eval_state"][1]) = EvalStepsOf(eval_steps)
        /\ eval_ep_steps = <<[i \in 1..eval_episodes |-> eval_episode_len]>>

\* an eval() that returned without a buffer although the pass saw more
\* than n states: the first episode of the pass ended at its first step
C19_Witness ==
    /\ pc = "run_after_initial_eval"
    /\ eval_steps = {3}
    /\ agent_info["eval_state"] = <<>>
    /\ Len(eval_state_buffer) = 5
    /\ eval_state_buffer[2] = <<1, 1>>
    /\ eval_state_buffer[3] = <<2, 0>>

\* C20: with the duration of an evaluation episode and of the state-
\* collection pass counted in steps of the evaluation environment, the
\* value eval() returns is the sum of the durations of its evaluation
\* episodes plus, when the pass ran, the duration of the pass.
C20_Original ==
    pc = "run_after_initial_eval" =>
        eval_returned =
            SumSeq(eval_ep_steps[Len(eval_ep_steps)]) +
            (IF eval_steps # NoEvalSteps THEN additional_eval_time ELSE 0)

\* an eval() whose pass took four steps and whose return value holds the
\* two steps of its evaluation episode only
C20_Witness ==
    /\ pc = "run_after_initial_eval"
    /\ eval_steps = {3}
    /\ eval_ep_steps = <<(<<2>>)>>
    /\ additional_eval_time = 4
    /\ eval_returned = 2

\* C21: run() completes for every total_timesteps and every max_episodes,
\* given that evaluation episodes end; the training phase takes at most
\* total_timesteps steps of the training environment, also when that
\* environment never reports done, since every training episode takes at
\* least one step and the budget is tested after each step.
C21_Termination ==
    /\ <>(pc = "done")
    /\ [](/\ Cardinality(EventAt("env_step")) <= total_timesteps
          /\ \A i \in DOMAIN train_ep_steps : train_ep_steps[i] >= 1
          /\ pc = "run_record" => episode_steps >= 1)
    /\ [][pc = "train_step" =>
             pc' = IF timesteps_elapsed' >= total_timesteps
                   THEN "run_record" ELSE "train_while"]_vars

C21_Witness ==
    /\ pc = "done"
    /\ total_timesteps = 3
    /\ train_ep_steps = <<3>>
    /\ train_ep_done = <<FALSE>>

\* C22: within one run() the steps of successive save_data calls lie at
\* least steps_to_save apart (the first at least steps_to_save from 0), so
\* their checkpoint buckets increase strictly and no call finds the file of
\* its bucket already written.
C22_BucketsIncrease ==
    /\ \A n \in DOMAIN save_log :
          /\ save_log[n].save_step = Bucket(save_log[n].step, steps_to_save)
          /\ ~save_log[n].existed
          /\ save_log[n].step >= steps_to_save
          /\ n > 1 =>
                /\ save_log[n].step - save_log[n - 1].step >= steps_to_save
                /\ save_log[n].save_step > save_log[n - 1].save_step
    /\ Cardinality(DOMAIN files) = Len(save_log)

C22_Witness ==
    /\ Len(save_log) = 2
    /\ steps_to_save = 1
    /\ save_log[1].step = 1
    /\ save_log[2].step = 3
    /\ DOMAIN files = {<<1, 1>>, <<3, 1>>}

\* C23: for total_timesteps > 0 and eval_interval_timesteps >= 1, when run()
\* has completed timesteps_at_eval starts with 0, increases strictly (no two
\* evaluations at the same elapsed timestep), ends with the final
\* timesteps_elapsed, and each of its entries but the last is a multiple of
\* eval_interval_timesteps.
C23_EvalMarkers ==
    (pc = "done" /\ total_timesteps > 0 /\ eval_interval_timesteps >= 1) =>
        /\ Len(timesteps_at_eval) >= 2
        /\ timesteps_at_eval[1] = 0
        /\ timesteps_at_eval[Len(timesteps_at_eval)] = timesteps_elapsed
        /\ \A i \in 1..(Len(timesteps_at_eval) - 1) :
              /\ timesteps_at_eval[i] < timesteps_at_eval[i + 1]
              /\ timesteps_at_eval[i] % eval_interval_timesteps = 0

C23_Witness ==
    /\ pc = "done"
    /\ total_timesteps = 3
    /\ eval_interval_timesteps = 2
    /\ timesteps_at_eval = <<0, 2, 3>>
    /\ Len(train_ep_steps) = 2

\* C24: run() calls save_data only before the training loop exits, so once
\* the final evaluation is recorded every checkpoint record and every
\* checkpoint file of the run holds fewer evaluation sessions than the run
\* performed (the final session is in none of them); with
\* total_timesteps < steps_to_save no checkpoint is written at all.
C24_NoSaveAfterLoop ==
    /\ \A i \in EventAt("save"), j \in EventAt("loop_exit") : i < j
    /\ pc \in {"run_after_final_eval", "done"} =>
          /\ \A n \in DOMAIN save_log :
                Len(save_log[n].record["eval_episode_steps"])
                    < Len(eval_ep_steps)
          /\ \A p \in DOMAIN files :
                Len(files[p][Len(files[p])]["eval_episode_rewards"])
                    < Len(eval_ep_return)
    /\ total_timesteps < steps_to_save =>
          /\ save_log = <<>>
          /\ DOMAIN files = {}
          /\ EventAt("save") = {}

C24_Witness ==
    /\ pc = "done"
    /\ total_timesteps = 3
    /\ steps_to_save = 2
    /\ timesteps_elapsed = 3
    /\ Len(save_log) = 1
    /\ save_log[1].step = 2
    /\ Len(eval_ep_steps) = 3
    /\ Len(save_log[1].record["eval_episode_steps"]) = 1

====
